---- MODULE Spec2Model ----
(***************************************************************************)
(* Collection reducers of react-frontend-demo: the two cart variants       *)
(* (useState, useReducer), the billing reducer (useReducer), the Redux     *)
(* billing slice and the blog reducer.                                     *)
(*                                                                         *)
(* A JavaScript object is a function from field names to values, so that   *)
(* a field can be absent (k \notin DOMAIN o), spread ({...a, ...b}) is     *)
(* Spread(a, b) and delete o.k is Delete(o, k).  A collection is a         *)
(* sequence of such objects.                                               *)
(*                                                                         *)
(* Numbers: prices are drawn from multiples of 100 and discounts from      *)
(* whole percentages, so that price * (1 - discount) is exact; a discount  *)
(* fraction d is carried as the integer 100 * d.                           *)
(***************************************************************************)
EXTENDS Integers, Sequences, FiniteSets, TLC

\* ------------------------------------------------------------------ bounds
\* Largest quantity of one cart line the model lets the user reach.
MaxQty == 3
\* Largest |amount| of an UPDATE_QTY.
MaxDelta == 2
\* Number of milliseconds the wall clock may advance.
MaxTicks == 1
\* Largest number of items in a billing or blog collection.
MaxItems == 2
\* The wall clock's first value, in ms (the blog's seed post has id 1, and no
\* item has id 0).
Epoch == 10
\* Largest number of operations dispatched to a billing or blog collection in
\* one behaviour.
MaxOps == 3

VARIABLES
    route,      \* the component that is mounted (the router shows one at a time)
    now,        \* the wall clock, in ms: what Date.now() returns
    cartS,      \* CartUseState: cart
    cartR,      \* CartUseReducer: cart
    itemsR,     \* BillingUseReducer: items
    items,      \* Redux store: state.billing.items
    posts,      \* BlogUseReducer: posts
    itemsS,     \* BillingUseState: items
    notification, \* NotificationProvider: the message shown, or null
    timers,     \* NotificationProvider: the hide timers that are pending, each
                \* with the message it was set for and the seconds left
    user,       \* RegistrationPage: the form's fields
    last,       \* history: the last operation, its arguments and the collection before it
    history     \* history: the number of Add calls made while only Adds were made,
                \* whether only Adds were made, and the number of operations
                \* dispatched to a billing or blog collection

vars == <<route, now, cartS, cartR, itemsR, items, posts, itemsS, notification, timers,
          user, last, history>>

\* ------------------------------------------------------- JavaScript objects
Has(o, k) == k \in DOMAIN o

\* {...a, ...b}
Spread(a, b) ==
    [k \in DOMAIN a \cup DOMAIN b |-> IF k \in DOMAIN b THEN b[k] ELSE a[k]]

\* delete o.k
Delete(o, k) == [f \in DOMAIN o \ {k} |-> o[f]]

\* Truthiness of the number-valued field k of o: undefined and 0 are falsy.
TruthyNum(o, k) == Has(o, k) /\ o[k] # 0

\* array.map(f)
Map(s, f(_)) == [i \in DOMAIN s |-> f(s[i])]

\* array.findIndex(item => item.id === id), 1-based; 0 stands for -1
FindIndex(s, id) ==
    IF \E i \in DOMAIN s : s[i].id = id
    THEN CHOOSE i \in DOMAIN s :
            s[i].id = id /\ \A j \in DOMAIN s : s[j].id = id => i <= j
    ELSE 0

\* new Date(ms).toISOString(): a string that determines ms
toISOString(ms) == [iso |-> ms]

\* ---------------------------------------------------------------- the cart
products ==
    << [id |-> 1, name |-> "Laptop", price |-> 1200],
       [id |-> 2, name |-> "Mouse", price |-> 25] >>

\* Mutant of BumpQty: the amount's sign is dropped.
BumpQtyMagnitude(state, id, n) ==
    Map(state, LAMBDA item :
        IF item.id = id
        THEN Spread(item, [qty |-> item.qty + (IF n < 0 THEN 0 - n ELSE n)]) ELSE item)

\* state.map(item => item.id === id ? { ...item, qty: item.qty + n } : item)
BumpQty(state, id, n) ==
    Map(state, LAMBDA item :
        IF item.id = id THEN Spread(item, [qty |-> item.qty + n]) ELSE item)

\* Mutant of KeepPositive: the filter is item.qty >= 0.
KeepNonNegative(state) == SelectSeq(state, LAMBDA item : item.qty >= 0)

\* .filter(item => item.qty > 0)
KeepPositive(state) == SelectSeq(state, LAMBDA item : item.qty > 0)

\* Mutant of cartAdd: the product is appended without looking for its id.
cartAddAlwaysAppends(state, payload) == Append(state, Spread(payload, [qty |-> 1]))

\* Mutant of cartAdd: the item found takes the payload's fields as well
\* ({ ...item, ...action.payload, qty: item.qty + 1 }).
cartAddOverwrites(state, payload) ==
    IF \E i \in DOMAIN state : state[i].id = payload.id
    THEN [i \in DOMAIN state |->
            IF state[i].id = payload.id
            THEN Spread(Spread(state[i], payload), [qty |-> state[i].qty + 1])
            ELSE state[i]]
    ELSE Append(state, Spread(payload, [qty |-> 1]))

\* cartReducer, case 'ADD'
cartAdd(state, payload) ==
    IF \E i \in DOMAIN state : state[i].id = payload.id
    THEN BumpQty(state, payload.id, 1)
    ELSE Append(state, Spread(payload, [qty |-> 1]))

\* Mutant of cartUpdateQty: the quantity is clamped at 1 and the item kept.
cartUpdateQtyClamped(state, id, amount) ==
    Map(state, LAMBDA item :
        IF item.id = id
        THEN Spread(item, [qty |-> IF item.qty + amount < 1 THEN 1 ELSE item.qty + amount])
        ELSE item)

\* cartReducer, case 'UPDATE_QTY'
cartUpdateQty(state, id, amount) == KeepPositive(BumpQty(state, id, amount))

\* Mutant of cartDefault: an unknown action resets the cart.
cartDefaultResets(state) == << >>

\* cartReducer, default
cartDefault(state) == state

cartReducer(state, action) ==
    CASE action.type = "ADD" -> cartAdd(state, action.payload)
      [] action.type = "UPDATE_QTY" -> cartUpdateQty(state, action.id, action.amount)
      [] OTHER -> cartDefault(state)

\* Mutant of addToCart: the cart is not searched, a line is always appended.
addToCartAlwaysAppends(currentCart, product) ==
    Append(currentCart, Spread(product, [qty |-> 1]))

\* CartUseState: the updater addToCart passes to setCart
addToCart(currentCart, product) ==
    IF \E i \in DOMAIN currentCart : currentCart[i].id = product.id
    THEN Map(currentCart, LAMBDA item :
            IF item.id = product.id
            THEN Spread(item, [qty |-> item.qty + 1]) ELSE item)
    ELSE Append(currentCart, Spread(product, [qty |-> 1]))

\* Mutant of updateQuantity: a line whose qty reaches 0 is kept.
updateQuantityKeepsZero(currentCart, id, amount) ==
    Map(currentCart, LAMBDA item :
        IF item.id = id
        THEN Spread(item, [qty |-> item.qty + amount]) ELSE item)

\* CartUseState: the updater updateQuantity passes to setCart
updateQuantity(currentCart, id, amount) ==
    SelectSeq(
        Map(currentCart, LAMBDA item :
            IF item.id = id
            THEN Spread(item, [qty |-> item.qty + amount]) ELSE item),
        LAMBDA item : item.qty > 0)

\* ------------------------------------------------- billing: useReducer
\* Mutant of basePriceOf: the base is the current price (discounts compound).
basePriceCompounding(item) == item.price

\* item.originalPrice || item.price
basePriceOf(item) ==
    IF TruthyNum(item, "originalPrice") THEN item.originalPrice ELSE item.price

\* base * (1 - discount), the discount being carried in hundredths
discountedPrice(base, discount) == (base * (100 - discount)) \div 100

\* state.filter(item => item.id !== id)
FilterOut(state, id) == SelectSeq(state, LAMBDA item : item.id # id)

\* Mutant of billingAddItem: the new item is put first ([payload, ...state]).
billingAddItemFirst(state, payload) == <<payload>> \o state

\* billingReducer, case 'ADD_ITEM'
billingAddItem(state, payload) == Append(state, payload)

\* Mutant of billingRemoveItem: only the first item with the id is spliced out.
billingRemoveFirst(state, payload) ==
    IF FindIndex(state, payload.id) = 0
    THEN state
    ELSE SubSeq(state, 1, FindIndex(state, payload.id) - 1)
            \o SubSeq(state, FindIndex(state, payload.id) + 1, Len(state))

\* billingReducer, case 'REMOVE_ITEM'
billingRemoveItem(state, payload) == FilterOut(state, payload.id)

\* billingReducer, case 'UPDATE_ITEM'
billingUpdateItem(state, payload) ==
    Map(state, LAMBDA item :
        IF item.id = payload.id THEN Spread(item, payload.updates) ELSE item)

\* Mutant of billingClearItems: the case returns the state it was given.
billingClearItemsKeeps(state) == state

\* billingReducer, case 'CLEAR_ITEMS'
billingClearItems(state) == << >>

\* Mutant of billingApplyDiscount: the id is not compared, every item is
\* discounted.
billingApplyDiscountAll(state, payload) ==
    Map(state, LAMBDA item :
        Spread(item,
            [originalPrice |-> basePriceOf(item),
             price |-> discountedPrice(basePriceOf(item), payload.discount)]))

\* billingReducer, case 'APPLY_DISCOUNT'
billingApplyDiscount(state, payload) ==
    Map(state, LAMBDA item :
        IF item.id = payload.id
        THEN Spread(item,
                [originalPrice |-> basePriceOf(item),
                 price |-> discountedPrice(basePriceOf(item), payload.discount)])
        ELSE item)

\* billingReducer, default
billingDefault(state) == state

billingReducer(state, action) ==
    CASE action.type = "ADD_ITEM" -> billingAddItem(state, action.payload)
      [] action.type = "REMOVE_ITEM" -> billingRemoveItem(state, action.payload)
      [] action.type = "UPDATE_ITEM" -> billingUpdateItem(state, action.payload)
      [] action.type = "CLEAR_ITEMS" -> billingClearItems(state)
      [] action.type = "APPLY_DISCOUNT" -> billingApplyDiscount(state, action.payload)
      [] OTHER -> billingDefault(state)

\* ------------------------------------------------- billing: the Redux slice
\* Each reducer of the slice is given the draft's items, the action's payload
\* and, where the reducer calls new Date(), the wall clock t; it yields the
\* items Immer produces from the reducer's mutations.

\* payload.addedAt || new Date().toISOString()
addedAtOf(payload, t) ==
    IF Has(payload, "addedAt") THEN payload.addedAt ELSE toISOString(t)

\* Mutant of categoryOf: the category of the payload is not looked at.
categoryOfAlwaysGeneral(payload) == "general"

\* payload.category || 'general'
categoryOf(payload) ==
    IF Has(payload, "category") /\ payload.category # ""
    THEN payload.category ELSE "general"

\* payload.taxable !== false
taxableOf(payload) == ~(Has(payload, "taxable") /\ payload.taxable = FALSE)

addItem(state, payload, t) ==
    Append(state,
        Spread(payload,
            [addedAt |-> addedAtOf(payload, t),
             category |-> categoryOf(payload),
             taxable |-> taxableOf(payload)]))

removeItem(state, payload) == SelectSeq(state, LAMBDA item : item.id # payload.id)

\* Mutant of updateItem: an id that is not found is inserted.
updateItemUpserts(state, payload, t) ==
    IF FindIndex(state, payload.id) # 0
    THEN [state EXCEPT ![FindIndex(state, payload.id)] =
            Spread(Spread(@, payload.updates), [updatedAt |-> toISOString(t)])]
    ELSE Append(state,
            Spread(Spread([id |-> payload.id], payload.updates),
                   [updatedAt |-> toISOString(t)]))

updateItem(state, payload, t) ==
    IF FindIndex(state, payload.id) # 0
    THEN [state EXCEPT ![FindIndex(state, payload.id)] =
            Spread(Spread(@, payload.updates), [updatedAt |-> toISOString(t)])]
    ELSE state

\* Mutant of discountItem: originalPrice is captured at every application.
discountItemRecaptures(item, discount, t) ==
    Spread(item,
        [originalPrice |-> item.price,
         price |-> discountedPrice(basePriceOf(item), discount),
         discountApplied |-> discount,
         discountedAt |-> toISOString(t)])

\* The body of applyDiscount's if, and of applyBulkDiscount's forEach, on one item.
discountItem(item, discount, t) ==
    Spread(item,
        [originalPrice |-> basePriceOf(item),
         price |-> discountedPrice(basePriceOf(item), discount),
         discountApplied |-> discount,
         discountedAt |-> toISOString(t)])

applyDiscount(state, payload, t) ==
    IF FindIndex(state, payload.id) # 0
    THEN [state EXCEPT ![FindIndex(state, payload.id)] =
            discountItem(@, payload.discount, t)]
    ELSE state

\* Mutant of undiscountItem: the discount's fields are deleted, the price is not
\* restored.
undiscountItemKeepsPrice(item) ==
    IF TruthyNum(item, "originalPrice")
    THEN Delete(Delete(Delete(item, "originalPrice"), "discountApplied"), "discountedAt")
    ELSE item

\* The body of removeDiscount's outer if, on the item found.
undiscountItem(item) ==
    IF TruthyNum(item, "originalPrice")
    THEN Delete(Delete(Delete(
            Spread(item, [price |-> item.originalPrice]),
            "originalPrice"), "discountApplied"), "discountedAt")
    ELSE item

\* Mutant of removeDiscount: the inner if is missing, so an item without
\* originalPrice has its price overwritten with undefined.
removeDiscountUnguarded(state, payload) ==
    IF FindIndex(state, payload.id) # 0
    THEN [state EXCEPT ![FindIndex(state, payload.id)] =
            IF TruthyNum(@, "originalPrice") THEN undiscountItem(@)
            ELSE Delete(@, "price")]
    ELSE state

removeDiscount(state, payload) ==
    IF FindIndex(state, payload.id) # 0
    THEN [state EXCEPT ![FindIndex(state, payload.id)] = undiscountItem(@)]
    ELSE state

clearItems(state) == << >>

\* Mutant of setItems: the payload's items are added to the ones held.
setItemsKeepsPrior(state, payload) == state \o payload

setItems(state, payload) == payload

applyBulkDiscount(state, payload, t) ==
    Map(state, LAMBDA item : discountItem(item, payload.discount, t))

\* ----------------------------------------------------- blog: useReducer
\* blogReducer, case 'ADD_POST'
blogAddPost(state, payload) == Append(state, payload)

\* blogReducer, case 'DELETE_POST'
blogDeletePost(state, payload) == SelectSeq(state, LAMBDA post : post.id # payload.id)

\* blogReducer, case 'UPDATE_POST'
blogUpdatePost(state, payload) ==
    Map(state, LAMBDA post :
        IF post.id = payload.id THEN Spread(post, payload.updates) ELSE post)

\* blogReducer, case 'CLEAR_POSTS'
blogClearPosts(state) == << >>

\* blogReducer, default
blogDefault(state) == state

blogReducer(state, action) ==
    CASE action.type = "ADD_POST" -> blogAddPost(state, action.payload)
      [] action.type = "DELETE_POST" -> blogDeletePost(state, action.payload)
      [] action.type = "UPDATE_POST" -> blogUpdatePost(state, action.payload)
      [] action.type = "CLEAR_POSTS" -> blogClearPosts(state)
      [] OTHER -> blogDefault(state)

\* The post BlogUseReducer starts with.
firstPost ==
    [id |-> 1, title |-> "First Post (useReducer)",
     content |-> "This is a sample blog post content using useReducer.",
     category |-> "Technology"]

\* ------------------------------------------------------------ the inputs
Routes ==
    {"CartUseState", "CartUseReducer", "BillingUseReducer", "BillingRedux",
     "BlogUseReducer"}

Clock == Epoch .. Epoch + MaxTicks

\* Ids an id-targeted operation is issued with: every id the clock can have
\* given, the seed post's id, and 0, which no item has.
TargetIds == Clock \cup {0, 1}

ProductIds == {products[i].id : i \in DOMAIN products}

Deltas == (0 - MaxDelta) .. MaxDelta

BillNames == {"Pen"}

Prices == {100, 200}

\* Discount fractions 0, 0.10 and 0.20, in hundredths.
Discounts == {0, 10, 20}

BillPatches == {[name |-> "Ink"], [price |-> 300]}

PostPatches == {[title |-> "Edited"]}

\* What handleAddItem (BillingRedux) and addItem (BillingUseReducer) dispatch
\* for a form holding a valid name and price.
billPayload(name, price, t) ==
    [id |-> t, name |-> name, price |-> price,
     addedAt |-> toISOString(t), category |-> "general"]

\* What handleAddPost dispatches for a form holding a valid post.
postPayload(title, t) ==
    [id |-> t, title |-> title, content |-> "Text", category |-> "Lifestyle",
     createdAt |-> toISOString(t)]

\* Invoices setItems is given: an empty one, and one saved before the epoch.
SavedInvoices ==
    { << >>,
      << [id |-> 1, name |-> "Saved", price |-> 100,
          addedAt |-> toISOString(1), category |-> "general", taxable |-> TRUE] >> }

\* ---------------------------------------------------------------- history
CartRoutes == {"CartUseState", "CartUseReducer"}

Record(op, id, arg, pre) ==
    /\ last' = [op |-> op, id |-> id, arg |-> arg, pre |-> pre]
    /\ history' =
          [adds |-> IF op = "Add" /\ history.onlyAdds
                    THEN history.adds + 1 ELSE history.adds,
           onlyAdds |-> history.onlyAdds /\ op = "Add",
           ops |-> IF route \in CartRoutes THEN 0 ELSE history.ops + 1]

\* RegistrationPage: useState({ name: '', ..., hobbies: [], ..., newsletter: false })
initialUser ==
    [name |-> << >>, email |-> << >>, phone |-> << >>, gender |-> "", dob |-> "",
     address |-> "", city |-> "", state |-> "", zipCode |-> "", hobbies |-> << >>,
     occupation |-> "", education |-> "", newsletter |-> FALSE]

\* useState(null): no notification is shown.
NoNotification == [kind |-> "null"]

\* ------------------------------------------------------------------- Init
Init ==
    /\ route \in Routes
    /\ now = Epoch
    /\ cartS = << >>
    /\ cartR = << >>
    /\ itemsR = << >>
    /\ items = << >>
    /\ posts = << firstPost >>
    /\ itemsS = << >>
    /\ notification = NoNotification
    /\ timers = {}
    /\ user = initialUser
    /\ last = [op |-> "Init", id |-> 0, arg |-> 0, pre |-> << >>]
    /\ history = [adds |-> 0, onlyAdds |-> TRUE, ops |-> 0]

\* ---------------------------------------------------------------- actions
\* The wall clock advances by a millisecond.
Tick ==
    /\ now < Epoch + MaxTicks
    /\ now' = now + 1
    /\ UNCHANGED <<route, cartS, cartR, itemsR, items, posts, itemsS, user, notification, timers,
                 last, history>>

QtyRoom(cart, id, n) == \A i \in DOMAIN cart : cart[i].id = id => cart[i].qty + n <= MaxQty

\* CartUseState: addToCart(product)
StateAddToCart(product) ==
    /\ route = "CartUseState"
    /\ QtyRoom(cartS, product.id, 1)
    /\ cartS' = addToCart(cartS, product)
    /\ Record("AddOrIncrement", product.id, product, cartS)
    /\ UNCHANGED <<route, now, cartR, itemsR, items, posts, itemsS, user, notification, timers>>

\* CartUseState: updateQuantity(id, amount)
StateUpdateQuantity(id, amount) ==
    /\ route = "CartUseState"
    /\ QtyRoom(cartS, id, amount)
    /\ cartS' = updateQuantity(cartS, id, amount)
    /\ Record("UpdateQty", id, amount, cartS)
    /\ UNCHANGED <<route, now, cartR, itemsR, items, posts, itemsS, user, notification, timers>>

\* CartUseReducer: dispatch(action)
CartDispatch(op, id, arg, action) ==
    /\ route = "CartUseReducer"
    /\ cartR' = cartReducer(cartR, action)
    /\ Record(op, id, arg, cartR)
    /\ UNCHANGED <<route, now, cartS, itemsR, items, posts, itemsS, user, notification, timers>>

ReducerAddToCart(product) ==
    /\ QtyRoom(cartR, product.id, 1)
    /\ CartDispatch("AddOrIncrement", product.id, product,
            [type |-> "ADD", payload |-> product])

ReducerUpdateQuantity(id, amount) ==
    /\ QtyRoom(cartR, id, amount)
    /\ CartDispatch("UpdateQty", id, amount,
            [type |-> "UPDATE_QTY", id |-> id, amount |-> amount])

CartUnknown ==
    CartDispatch("Unknown", 0, 0, [type |-> "RESET"])

\* BillingUseReducer: dispatch(action)
BillingDispatch(op, id, arg, action) ==
    /\ route = "BillingUseReducer"
    /\ history.ops < MaxOps
    /\ itemsR' = billingReducer(itemsR, action)
    /\ Record(op, id, arg, itemsR)
    /\ UNCHANGED <<route, now, cartS, cartR, items, posts, itemsS, user, notification, timers>>

BillingAdd(name, price) ==
    /\ Len(itemsR) < MaxItems
    /\ BillingDispatch("Add", now, billPayload(name, price, now),
            [type |-> "ADD_ITEM", payload |-> billPayload(name, price, now)])

BillingRemove(id) ==
    BillingDispatch("Remove", id, 0, [type |-> "REMOVE_ITEM", payload |-> [id |-> id]])

BillingUpdate(id, updates) ==
    BillingDispatch("Update", id, updates,
        [type |-> "UPDATE_ITEM", payload |-> [id |-> id, updates |-> updates]])

BillingClear ==
    BillingDispatch("Clear", 0, 0, [type |-> "CLEAR_ITEMS"])

BillingApplyDiscount(id, discount) ==
    BillingDispatch("ApplyDiscount", id, discount,
        [type |-> "APPLY_DISCOUNT", payload |-> [id |-> id, discount |-> discount]])

\* billingReducer has no case for removing a discount.
BillingUnknown(id) ==
    BillingDispatch("Unknown", id, 0, [type |-> "REMOVE_DISCOUNT", payload |-> [id |-> id]])

\* BillingRedux: the store's dispatch of one of the slice's actions
SliceStep(op, id, arg, next) ==
    /\ route = "BillingRedux"
    /\ history.ops < MaxOps
    /\ items' = next
    /\ Record(op, id, arg, items)
    /\ UNCHANGED <<route, now, cartS, cartR, itemsR, posts, itemsS, user, notification, timers>>

SliceAdd(name, price) ==
    /\ Len(items) < MaxItems
    /\ SliceStep("Add", now, billPayload(name, price, now),
            addItem(items, billPayload(name, price, now), now))

SliceRemove(id) == SliceStep("Remove", id, 0, removeItem(items, [id |-> id]))

SliceUpdate(id, updates) ==
    SliceStep("Update", id, updates,
        updateItem(items, [id |-> id, updates |-> updates], now))

SliceApplyDiscount(id, discount) ==
    SliceStep("ApplyDiscount", id, discount,
        applyDiscount(items, [id |-> id, discount |-> discount], now))

SliceRemoveDiscount(id) ==
    SliceStep("RemoveDiscount", id, 0, removeDiscount(items, [id |-> id]))

SliceClear == SliceStep("Clear", 0, 0, clearItems(items))

SliceSet(payload) == SliceStep("Set", 0, payload, setItems(items, payload))

SliceBulkDiscount(discount) ==
    SliceStep("BulkDiscount", 0, discount,
        applyBulkDiscount(items, [discount |-> discount], now))

\* BlogUseReducer: dispatch(action)
BlogDispatch(op, id, arg, action) ==
    /\ route = "BlogUseReducer"
    /\ history.ops < MaxOps
    /\ posts' = blogReducer(posts, action)
    /\ Record(op, id, arg, posts)
    /\ UNCHANGED <<route, now, cartS, cartR, itemsR, items, itemsS, user, notification, timers>>

BlogAdd(title) ==
    /\ Len(posts) < MaxItems
    /\ BlogDispatch("Add", now, postPayload(title, now),
            [type |-> "ADD_POST", payload |-> postPayload(title, now)])

BlogDelete(id) ==
    BlogDispatch("Remove", id, 0, [type |-> "DELETE_POST", payload |-> [id |-> id]])

BlogUpdate(id, updates) ==
    BlogDispatch("Update", id, updates,
        [type |-> "UPDATE_POST", payload |-> [id |-> id, updates |-> updates]])

BlogClear == BlogDispatch("Clear", 0, 0, [type |-> "CLEAR_POSTS"])

BlogUnknown == BlogDispatch("Unknown", 0, 0, [type |-> "RESET"])

Next ==
    \/ Tick
    \/ \E i \in DOMAIN products : StateAddToCart(products[i])
    \/ \E id \in ProductIds \cup {0}, amount \in Deltas : StateUpdateQuantity(id, amount)
    \/ \E i \in DOMAIN products : ReducerAddToCart(products[i])
    \/ \E id \in ProductIds \cup {0}, amount \in Deltas : ReducerUpdateQuantity(id, amount)
    \/ CartUnknown
    \/ \E name \in BillNames, price \in Prices : BillingAdd(name, price)
    \/ \E id \in TargetIds : BillingRemove(id)
    \/ \E id \in TargetIds, updates \in BillPatches : BillingUpdate(id, updates)
    \/ BillingClear
    \/ \E id \in TargetIds, discount \in Discounts : BillingApplyDiscount(id, discount)
    \/ \E id \in TargetIds : BillingUnknown(id)
    \/ \E name \in BillNames, price \in Prices : SliceAdd(name, price)
    \/ \E id \in TargetIds : SliceRemove(id)
    \/ \E id \in TargetIds, updates \in BillPatches : SliceUpdate(id, updates)
    \/ \E id \in TargetIds, discount \in Discounts : SliceApplyDiscount(id, discount)
    \/ \E id \in TargetIds : SliceRemoveDiscount(id)
    \/ SliceClear
    \/ \E payload \in SavedInvoices : SliceSet(payload)
    \/ \E discount \in Discounts : SliceBulkDiscount(discount)
    \/ \E title \in {"Hello"} : BlogAdd(title)
    \/ \E id \in TargetIds : BlogDelete(id)
    \/ \E id \in TargetIds, updates \in PostPatches : BlogUpdate(id, updates)
    \/ BlogClear
    \/ BlogUnknown

Spec == Init /\ [][Next]_vars

\* ================================================================ claims
\* The cart of the mounted cart component.
Cart == IF route = "CartUseState" THEN cartS ELSE cartR

HasId(coll, id) == \E i \in DOMAIN coll : coll[i].id = id

\* The positions of coll whose item has this id.
At(coll, id) == {i \in DOMAIN coll : coll[i].id = id}

CartLine(product, qty) ==
    [id |-> product.id, name |-> product.name, price |-> product.price, qty |-> qty]

\* C1: AddOrIncrement of a product whose id is in the cart adds 1 to that item's
\* qty, leaves every other item as it was and adds no item; AddOrIncrement of a
\* product whose id is absent appends one item with qty = 1.  From the empty
\* cart, the same id twice gives one item with qty 2, two distinct ids give two
\* items with qty 1 each.
C1_AddOrIncrement ==
    (route \in CartRoutes /\ last.op = "AddOrIncrement") =>
        /\ HasId(last.pre, last.id) =>
              /\ Len(Cart) = Len(last.pre)
              /\ \A i \in DOMAIN last.pre :
                    Cart[i] = IF last.pre[i].id = last.id
                              THEN [last.pre[i] EXCEPT !.qty = @ + 1]
                              ELSE last.pre[i]
        /\ ~HasId(last.pre, last.id) =>
              /\ Len(Cart) = Len(last.pre) + 1
              /\ \A i \in DOMAIN last.pre : Cart[i] = last.pre[i]
              /\ Cart[Len(Cart)] = CartLine(last.arg, 1)
        /\ last.pre = << CartLine(last.arg, 1) >> => Cart = << CartLine(last.arg, 2) >>
        /\ \A i \in DOMAIN products :
              (last.pre = << CartLine(products[i], 1) >> /\ products[i].id # last.id)
                  => Cart = << CartLine(products[i], 1), CartLine(last.arg, 1) >>

\* The Laptop was added to a cart that held one Laptop.
C1_Witness ==
    /\ route \in CartRoutes
    /\ last.op = "AddOrIncrement"
    /\ last.pre = << CartLine(products[1], 1) >>
    /\ last.id = products[1].id
    /\ Cart = << CartLine(products[1], 2) >>

\* C2: every item of a cart reached from the empty cart by AddOrIncrement and
\* UpdateQty has qty >= 1, and an UpdateQty that takes a quantity to 0 or below
\* leaves no item with that id (the item is removed, not kept at a floor).
C2_QtyAtLeastOne ==
    route \in CartRoutes =>
        /\ \A i \in DOMAIN Cart : Cart[i].qty >= 1
        /\ (last.op = "UpdateQty"
              /\ \E i \in At(last.pre, last.id) : last.pre[i].qty + last.arg <= 0)
                 => ~HasId(Cart, last.id)

\* An UpdateQty took a quantity below 0 and another item stayed in the cart.
C2_Witness ==
    /\ route \in CartRoutes
    /\ last.op = "UpdateQty"
    /\ \E i \in At(last.pre, last.id) : last.pre[i].qty + last.arg < 0
    /\ ~HasId(Cart, last.id)
    /\ Len(Cart) = 1
    /\ Len(last.pre) = 2

\* C3: UpdateQty(id, delta) on an item with qty + delta >= 1 gives it
\* qty + delta; with qty + delta <= 0 it removes the item; with an id no item has
\* it leaves the cart as it was.  The other items stay, in their order.
C3_UpdateQty ==
    (route \in CartRoutes /\ last.op = "UpdateQty") =>
        /\ ~HasId(last.pre, last.id) => Cart = last.pre
        /\ \A i \in At(last.pre, last.id) :
              IF last.pre[i].qty + last.arg >= 1
              THEN /\ Len(Cart) = Len(last.pre)
                   /\ Cart[i] = [last.pre[i] EXCEPT !.qty = @ + last.arg]
                   /\ \A j \in DOMAIN last.pre \ {i} : Cart[j] = last.pre[j]
              ELSE Cart = SelectSeq(last.pre, LAMBDA item : item.id # last.id)

\* An UpdateQty took the quantity 2 of one of two items to exactly 0.
C3_Witness ==
    /\ route \in CartRoutes
    /\ last.op = "UpdateQty"
    /\ last.arg = 0 - 2
    /\ Len(last.pre) = 2
    /\ \E i \in At(last.pre, last.id) : last.pre[i].qty = 2
    /\ Len(Cart) = 1
    /\ ~HasId(Cart, last.id)

\* ---------------------------------------------------------------- billing
BillingRoutes == {"BillingUseReducer", "BillingRedux"}

\* The collection of the mounted component.
Coll ==
    CASE route = "CartUseState" -> cartS
      [] route = "CartUseReducer" -> cartR
      [] route = "BillingUseReducer" -> itemsR
      [] route = "BillingRedux" -> items
      [] route = "BillingUseState" -> itemsS
      [] OTHER -> posts

\* The positions an id-targeted billing operation acts on: every item with the
\* id in the useReducer variant, the first one in the slice.
Targets(coll, id) ==
    IF route = "BillingRedux" THEN {FindIndex(coll, id)} \ {0} ELSE At(coll, id)

\* x * (1 - d), d in hundredths
OneMinus(x, d) == (x * (100 - d)) \div 100

IsDiscounted(item) == Has(item, "originalPrice")

\* ApplyDiscount(id, d) as the mounted billing variant computes it.
Apply(coll, id, d) ==
    IF route = "BillingRedux"
    THEN applyDiscount(coll, [id |-> id, discount |-> d], now)
    ELSE billingReducer(coll,
            [type |-> "APPLY_DISCOUNT", payload |-> [id |-> id, discount |-> d]])

\* C4: discounts do not compound.  An ApplyDiscount(id, d) leaves the item with
\* price = originalPrice * (1 - d), originalPrice being the price the item had
\* before the first ApplyDiscount; so after ApplyDiscount with d1 and then d2 on
\* an undiscounted item of price p, price = p * (1 - d2) and originalPrice = p
\* (0.10 then 0.20 on 100 gives 80, 0.10 twice gives 90, originalPrice 100).
C4_NoCompounding ==
    route \in BillingRoutes =>
        /\ last.op = "ApplyDiscount" =>
              \A i \in Targets(last.pre, last.id) :
                 /\ Coll[i].originalPrice =
                       IF IsDiscounted(last.pre[i])
                       THEN last.pre[i].originalPrice ELSE last.pre[i].price
                 /\ Coll[i].price = OneMinus(Coll[i].originalPrice, last.arg)
        /\ \A i \in DOMAIN Coll :
              (i \in Targets(Coll, Coll[i].id) /\ ~IsDiscounted(Coll[i])) =>
                 \A d1, d2 \in Discounts :
                    LET twice == Apply(Apply(Coll, Coll[i].id, d1), Coll[i].id, d2)[i]
                    IN  /\ twice.price = OneMinus(Coll[i].price, d2)
                        /\ twice.originalPrice = Coll[i].price
                        /\ (Coll[i].price = 100 /\ d1 = 10 /\ d2 = 20) => twice.price = 80
                        /\ (Coll[i].price = 100 /\ d1 = 10 /\ d2 = 10) => twice.price = 90

\* An item of price 100, discounted by 0.10 to 90, was then discounted by 0.20.
C4_Witness ==
    /\ route \in BillingRoutes
    /\ last.op = "ApplyDiscount"
    /\ last.arg = 20
    /\ \E i \in Targets(last.pre, last.id) :
          /\ IsDiscounted(last.pre[i])
          /\ last.pre[i].originalPrice = 100
          /\ last.pre[i].price = 90
          /\ Coll[i].price = 80
          /\ Coll[i].originalPrice = 100

DiscountFields == {"originalPrice", "discountApplied", "discountedAt"}

InPlaceOps == {"Update", "ApplyDiscount", "RemoveDiscount", "BulkDiscount"}

AddRoutes == {"BillingUseReducer", "BillingRedux", "BlogUseReducer"}

\* The collection the mounted component starts with.
InitialColl == IF route = "BlogUseReducer" THEN << firstPost >> ELSE << >>

DistinctIds(coll) == \A i, j \in DOMAIN coll : coll[i].id = coll[j].id => i = j

\* C7: after any sequence of Add calls on a billing or blog collection, each
\* taking its id from the wall clock, the collection holds one more item per
\* call and its ids are pairwise distinct.
C7_AddsGiveUniqueIds ==
    (route \in AddRoutes /\ history.onlyAdds) =>
        /\ Len(Coll) = Len(InitialColl) + history.adds
        /\ DistinctIds(Coll)

\* Remove(id) as the mounted component's reducer computes it.
Remove(coll, id) ==
    CASE route = "BillingUseReducer" ->
            billingReducer(coll, [type |-> "REMOVE_ITEM", payload |-> [id |-> id]])
      [] route = "BillingRedux" -> removeItem(coll, [id |-> id])
      [] OTHER -> blogReducer(coll, [type |-> "DELETE_POST", payload |-> [id |-> id]])

\* C8: Remove is idempotent.  In every collection of posts or billing items,
\* Remove(id) twice gives what Remove(id) once gives, and right after a
\* Remove(id) a second Remove(id) changes nothing.
C8_RemoveIdempotent ==
    route \in AddRoutes =>
        /\ \A id \in TargetIds :
              LET once == Remove(Coll, id) IN Remove(once, id) = once
        /\ last.op = "Remove" => Remove(Coll, last.id) = Coll

\* A Remove took an item out of a collection of two.
C8_Witness ==
    /\ route \in AddRoutes
    /\ last.op = "Remove"
    /\ HasId(last.pre, last.id)
    /\ Len(last.pre) = 2
    /\ Len(Coll) = 1
    /\ Remove(Coll, last.id) = Coll

IdTargetedOps == {"Remove", "Update", "ApplyDiscount", "RemoveDiscount", "UpdateQty"}

\* C9: an id-targeted operation (Remove, Update, ApplyDiscount, RemoveDiscount,
\* UpdateQty) issued with an id no item has leaves a collection equal to the
\* one before.
C9_AbsentIdNoOp ==
    (last.op \in IdTargetedOps /\ ~HasId(last.pre, last.id)) => Coll = last.pre

\* The slice's updateItem was issued with an id that none of two items has.
C9_Witness ==
    /\ route = "BillingRedux"
    /\ last.op = "Update"
    /\ ~HasId(last.pre, last.id)
    /\ Len(last.pre) = 2
    /\ items = last.pre

\* C10: an action whose type the reducer has no case for leaves the collection
\* as it was, in the cart, billing and blog reducers.
C10_UnknownActionNoOp ==
    last.op = "Unknown" => Coll = last.pre

\* The cart reducer was given an action of unknown type while the cart held two
\* items.
C10_Witness ==
    /\ route = "CartUseReducer"
    /\ last.op = "Unknown"
    /\ Len(last.pre) = 2
    /\ cartR = last.pre

\* ==================================================== unvalidated invoices
\* JavaScript's null as an element of the array setItems is given.
Null == [null |-> TRUE]

IsNull(item) == Has(item, "null")

\* An invoice setItems stores as it is although it holds no item.
UnvalidatedInvoices == { << Null >> }

\* findIndex(item => item.id === id) reads .id of each item up to the first
\* match: a TypeError when it meets null before a match.
findIndexThrows(s, id) ==
    \E i \in DOMAIN s :
        IsNull(s[i]) /\ \A j \in 1..(i - 1) : (~IsNull(s[j]) /\ s[j].id # id)

\* filter's and forEach's callbacks read a property of every item.
callbackThrows(s) == \E i \in DOMAIN s : IsNull(s[i])

\* Whether the slice's case reducer of this action type throws on this state.
sliceThrows(type, state, payload) ==
    CASE type = "addItem" -> FALSE
      [] type = "removeItem" -> callbackThrows(state)
      [] type \in {"updateItem", "applyDiscount", "removeDiscount"} ->
            findIndexThrows(state, payload.id)
      [] type = "clearItems" -> FALSE
      [] type = "setItems" -> FALSE
      [] type = "applyBulkDiscount" -> callbackThrows(state)

\* The store's dispatch: a reducer that throws leaves the store's state as it
\* was and the exception reaches the caller of dispatch.
LoadStep(type, op, id, arg, payload, next) ==
    /\ route = "BillingRedux"
    /\ history.ops < MaxOps
    /\ IF sliceThrows(type, items, payload)
       THEN items' = items /\ Record("Throw", id, op, items)
       ELSE items' = next /\ Record(op, id, arg, items)
    /\ UNCHANGED <<route, now, cartS, cartR, itemsR, posts, itemsS, user, notification, timers>>

LoadAdd(name, price) ==
    /\ Len(items) < MaxItems
    /\ LoadStep("addItem", "Add", now, billPayload(name, price, now),
            billPayload(name, price, now),
            addItem(items, billPayload(name, price, now), now))

LoadRemove(id) ==
    LoadStep("removeItem", "Remove", id, 0, [id |-> id],
        removeItem(items, [id |-> id]))

LoadUpdate(id, updates) ==
    LoadStep("updateItem", "Update", id, updates, [id |-> id, updates |-> updates],
        updateItem(items, [id |-> id, updates |-> updates], now))

LoadApplyDiscount(id, discount) ==
    LoadStep("applyDiscount", "ApplyDiscount", id, discount,
        [id |-> id, discount |-> discount],
        applyDiscount(items, [id |-> id, discount |-> discount], now))

LoadRemoveDiscount(id) ==
    LoadStep("removeDiscount", "RemoveDiscount", id, 0, [id |-> id],
        removeDiscount(items, [id |-> id]))

LoadClear == LoadStep("clearItems", "Clear", 0, 0, 0, clearItems(items))

LoadSet(payload) ==
    LoadStep("setItems", "Set", 0, payload, payload, setItems(items, payload))

LoadBulkDiscount(discount) ==
    LoadStep("applyBulkDiscount", "BulkDiscount", 0, discount, [discount |-> discount],
        applyBulkDiscount(items, [discount |-> discount], now))

InitLoad == Init /\ route = "BillingRedux"

NextLoad ==
    \/ Tick
    \/ \E name \in BillNames, price \in Prices : LoadAdd(name, price)
    \/ \E id \in TargetIds : LoadRemove(id)
    \/ \E id \in TargetIds, updates \in BillPatches : LoadUpdate(id, updates)
    \/ \E id \in TargetIds, discount \in Discounts : LoadApplyDiscount(id, discount)
    \/ \E id \in TargetIds : LoadRemoveDiscount(id)
    \/ LoadClear
    \/ \E payload \in SavedInvoices \cup UnvalidatedInvoices : LoadSet(payload)
    \/ \E discount \in Discounts : LoadBulkDiscount(discount)

\* The billing store when setItems is also given invoices nobody validated.
SpecLoad == InitLoad /\ [][NextLoad]_vars

\* C11: the reducer never throws: every operation of the vocabulary, also one
\* dispatched after a Set whose payload was not validated, completes and gives
\* a collection.
C11_NeverThrows ==
    route = "BillingRedux" => last.op # "Throw"

\* ============================================================ determinism
\* C12: every reducer transition is a function of (state, action) only: two
\* copies holding equal collections and given the same action end in equal
\* collections whatever the wall-clock time of each dispatch; the reducer reads
\* no timestamp of its own.
C12_FunctionOfStateAndAction ==
    route = "BillingRedux" =>
        \A t1, t2 \in Clock :
            /\ \A name \in BillNames, price \in Prices :
                  addItem(items, billPayload(name, price, now), t1)
                      = addItem(items, billPayload(name, price, now), t2)
            /\ \A id \in TargetIds, updates \in BillPatches :
                  updateItem(items, [id |-> id, updates |-> updates], t1)
                      = updateItem(items, [id |-> id, updates |-> updates], t2)
            /\ \A id \in TargetIds, discount \in Discounts :
                  applyDiscount(items, [id |-> id, discount |-> discount], t1)
                      = applyDiscount(items, [id |-> id, discount |-> discount], t2)
            /\ \A discount \in Discounts :
                  applyBulkDiscount(items, [discount |-> discount], t1)
                      = applyBulkDiscount(items, [discount |-> discount], t2)

\* ================================================ patches of identity fields
\* Patches that carry a field the data model sets at creation.
ProtectedBillPatches == {[id |-> 1], [addedAt |-> toISOString(0)]}

ProtectedPostPatches == {[id |-> 0], [createdAt |-> toISOString(0)]}

NextPatch ==
    \/ Next
    \/ \E id \in TargetIds, updates \in ProtectedBillPatches : BillingUpdate(id, updates)
    \/ \E id \in TargetIds, updates \in ProtectedBillPatches : SliceUpdate(id, updates)
    \/ \E id \in TargetIds, updates \in ProtectedPostPatches : BlogUpdate(id, updates)

\* The reducers when Update is given any patch.
SpecPatch == Init /\ [][NextPatch]_vars

Ids(coll) == [i \in DOMAIN coll |-> coll[i].id]

\* C13: Update/patch never changes an item's id: for every patch, also one that
\* carries an id field, the item that matched keeps its id, so the ids of the
\* collection are the same before and after an Update.
C13_UpdateKeepsId ==
    last.op = "Update" => Ids(Coll) = Ids(last.pre)

\* =========================================================== shallow merge
\* item is what prev becomes when patch is merged into it and nothing else is
\* touched.
MergedInto(item, prev, patch) ==
    /\ DOMAIN item = DOMAIN prev \cup DOMAIN patch
    /\ \A k \in DOMAIN patch : item[k] = patch[k]
    /\ \A k \in DOMAIN prev \ DOMAIN patch : item[k] = prev[k]

\* C14: Update/patch is a shallow merge: after Update(id, patch) the matching
\* item has the patch's value for every field of the patch and its previous
\* value for every other field, and no field outside the patch is added or
\* changed; the other items are as they were.
C14_ShallowMerge ==
    last.op = "Update" =>
        /\ Len(Coll) = Len(last.pre)
        /\ \A i \in DOMAIN last.pre :
              IF i \in Targets(last.pre, last.id)
              THEN MergedInto(Coll[i], last.pre[i], last.arg)
              ELSE Coll[i] = last.pre[i]

\* ======================================================= creation timestamp
\* The creation timestamp an item carries, if it carries one.
CreatedAt(item) ==
    IF Has(item, "addedAt") THEN <<item.addedAt>>
    ELSE IF Has(item, "createdAt") THEN <<item.createdAt>>
    ELSE << >>

\* Operations that keep every item at its position.
KeepsPositions == {"Update", "ApplyDiscount", "RemoveDiscount", "BulkDiscount", "Unknown"}

\* C15: an item's createdAt/addedAt is set when the item is added and has the
\* same value in every later state in which the item is present, whatever
\* operation (Update/patch, ApplyDiscount, RemoveDiscount, an operation on
\* another item) is applied.
C15_CreatedAtNeverMutated ==
    route \notin CartRoutes =>
        /\ last.op = "Add" =>
              /\ CreatedAt(Coll[Len(Coll)]) # << >>
              /\ CreatedAt(Coll[Len(Coll)]) = CreatedAt(last.arg)
              /\ \A i \in DOMAIN last.pre : CreatedAt(Coll[i]) = CreatedAt(last.pre[i])
        /\ last.op \in KeepsPositions =>
              \A i \in DOMAIN last.pre :
                  CreatedAt(last.pre[i]) # << >> =>
                      CreatedAt(Coll[i]) = CreatedAt(last.pre[i])
        /\ last.op = "Remove" =>
              \A i \in DOMAIN Coll : \E j \in DOMAIN last.pre : Coll[i] = last.pre[j]

\* ================================================ RemoveDiscount, no discount
\* C16: RemoveDiscount on an item that has no originalPrice leaves the whole
\* billing collection unchanged, the item's price and every other field
\* included.
C16_RemoveDiscountNoOp ==
    (route = "BillingRedux" /\ last.op = "RemoveDiscount"
        /\ \A i \in Targets(last.pre, last.id) : ~Has(last.pre[i], "originalPrice"))
            => items = last.pre

\* RemoveDiscount was given the id of an item that never had a discount, in a
\* collection of two items.
C16_Witness ==
    /\ route = "BillingRedux"
    /\ last.op = "RemoveDiscount"
    /\ Len(last.pre) = 2
    /\ \E i \in Targets(last.pre, last.id) :
          /\ ~Has(last.pre[i], "originalPrice")
          /\ items[i].price = last.pre[i].price
    /\ items = last.pre

\* ==================================================================== Clear
\* C17: Clear always yields the empty collection, from every reachable state,
\* the already empty one included, in the billing and blog reducers.
C17_ClearEmpties ==
    /\ last.op = "Clear" => Coll = << >>
    /\ billingReducer(itemsR, [type |-> "CLEAR_ITEMS"]) = << >>
    /\ clearItems(items) = << >>
    /\ blogReducer(posts, [type |-> "CLEAR_POSTS"]) = << >>

\* Clear was dispatched on a billing collection of two items.
C17_Witness ==
    /\ route \in BillingRoutes
    /\ last.op = "Clear"
    /\ Len(last.pre) = 2
    /\ Coll = << >>

\* ========================================================== insertion order
\* coll without the items that have this id, the others in their order.
Without(coll, id) == SelectSeq(coll, LAMBDA item : item.id # id)

\* post is pre followed by one item that has this id.
AppendedLast(post, pre, id) ==
    /\ Len(post) = Len(pre) + 1
    /\ \A i \in DOMAIN pre : post[i] = pre[i]
    /\ post[Len(post)].id = id

\* post has pre's items at pre's positions: those at the positions in targets
\* may have changed fields other than id, the others are as they were.
SamePositions(post, pre, targets) ==
    /\ Ids(post) = Ids(pre)
    /\ \A i \in DOMAIN pre \ targets : post[i] = pre[i]

Relabelled == { [id |-> 1, name |-> "Notebook", price |-> 900] }

NextRelabel ==
    \/ Next
    \/ \E product \in Relabelled : StateAddToCart(product)
    \/ \E product \in Relabelled : ReducerAddToCart(product)

\* The carts when AddOrIncrement is also given relabelled products.
SpecRelabel == Init /\ [][NextRelabel]_vars

\* C19: AddOrIncrement matches by id only: adding a product whose id is that of
\* an item in the cart, whatever the product's name and price, adds 1 to that
\* item's qty and keeps the item's name and price; no second item with the id
\* is created and the other items stay as they were.
C19_MatchByIdOnly ==
    (route \in CartRoutes /\ last.op = "AddOrIncrement" /\ HasId(last.pre, last.id)) =>
        /\ Len(Cart) = Len(last.pre)
        /\ \A i \in DOMAIN last.pre :
              IF last.pre[i].id = last.arg.id
              THEN /\ Cart[i].id = last.pre[i].id
                   /\ Cart[i].name = last.pre[i].name
                   /\ Cart[i].price = last.pre[i].price
                   /\ Cart[i].qty = last.pre[i].qty + 1
                   /\ DOMAIN Cart[i] = DOMAIN last.pre[i]
              ELSE Cart[i] = last.pre[i]

\* The Notebook was added to a cart that held one Laptop and one Mouse: the cart
\* holds two Laptops at the Laptop's price.
C19_Witness ==
    /\ route \in CartRoutes
    /\ last.op = "AddOrIncrement"
    /\ last.arg \in Relabelled
    /\ last.pre = << CartLine(products[1], 1), CartLine(products[2], 1) >>
    /\ Cart = << CartLine(products[1], 2), CartLine(products[2], 1) >>

\* ============================================================ derived totals
\* Tax rates and the cart's total factor, in hundredths (0.08, 0.1 and 1.1).
billingTaxRate == 8

cartTaxRate == 10

cartTotalFactor == 110

\* (num / den).toFixed(2), in hundredths: the nearest hundredth, halves up.
toFixed2(num, den) == (200 * num + den) \div (2 * den)

\* Mutant of lineAmount: the quantity is left out.
lineAmountIgnoresQty(item) == item.price

\* The cart's reduce callback adds item.price * item.qty.
lineAmount(item) == item.price * item.qty

\* cart.reduce((accumulator, item) => accumulator + item.price * item.qty, 0)
RECURSIVE cartTotal(_)
cartTotal(cart) ==
    IF cart = << >> THEN 0
    ELSE cartTotal(SubSeq(cart, 1, Len(cart) - 1)) + lineAmount(cart[Len(cart)])

\* items.reduce((sum, item) => sum + item.price, 0)
RECURSIVE billingSubtotal(_)
billingSubtotal(state) ==
    IF state = << >> THEN 0
    ELSE billingSubtotal(SubSeq(state, 1, Len(state) - 1)) + state[Len(state)].price

\* What the cart summary shows.
cartSummary(cart) ==
    [subtotal |-> toFixed2(cartTotal(cart), 1),
     tax |-> toFixed2(cartTotal(cart) * cartTaxRate, 100),
     total |-> toFixed2(cartTotal(cart) * cartTotalFactor, 100)]

\* What the bill summary shows.
billSummary(state) ==
    LET subtotal == billingSubtotal(state)
        tax == subtotal * billingTaxRate          \* in hundredths
        grandTotal == 100 * subtotal + tax        \* in hundredths
    IN  [subtotal |-> toFixed2(subtotal, 1),
         tax |-> toFixed2(tax, 100),
         total |-> toFixed2(grandTotal, 100)]

\* The sum of f over 1..n.
RECURSIVE SumTo(_, _)
SumTo(f, n) == IF n = 0 THEN 0 ELSE SumTo(f, n - 1) + f[n]

\* C20: for every reachable collection the subtotal shown is the sum of price
\* over the billing items, of price * qty over the cart items; the tax shown
\* is the subtotal times 8% for billing and 10% for the cart; the grand total
\* shown is subtotal + tax (amounts in hundredths).  From the empty cart, the
\* Laptop at 1200 added twice gives subtotal 2400, tax 240 and total 2640.
C20_DerivedTotals ==
    /\ route \in BillingRoutes =>
          LET shown == billSummary(Coll)
          IN  /\ shown.subtotal = 100 * SumTo([i \in DOMAIN Coll |-> Coll[i].price], Len(Coll))
              /\ 100 * shown.tax = billingTaxRate * shown.subtotal
              /\ shown.total = shown.subtotal + shown.tax
    /\ route \in CartRoutes =>
          LET shown == cartSummary(Cart)
          IN  /\ shown.subtotal =
                    100 * SumTo([i \in DOMAIN Cart |-> Cart[i].price * Cart[i].qty], Len(Cart))
              /\ 100 * shown.tax = cartTaxRate * shown.subtotal
              /\ shown.total = shown.subtotal + shown.tax
              /\ Cart = << CartLine(products[1], 2) >> =>
                    shown = [subtotal |-> 240000, tax |-> 24000, total |-> 264000]

\* The Laptop was added twice to the empty cart and the summary shows 2400.00,
\* 240.00 and 2640.00.
C20_Witness ==
    /\ route \in CartRoutes
    /\ last.op = "AddOrIncrement"
    /\ last.pre = << CartLine(products[1], 1) >>
    /\ Cart = << CartLine(products[1], 2) >>
    /\ cartSummary(Cart) = [subtotal |-> 240000, tax |-> 24000, total |-> 264000]

\* ============================================================ the add forms
\* The text of an input field is a sequence of characters.
Digit == [c \in {"0", "1", "2"} |-> CASE c = "0" -> 0 [] c = "1" -> 1 [] c = "2" -> 2]

IsSpace(c) == c = " "

\* String.prototype.trim
RECURSIVE trimStart(_)
trimStart(text) ==
    IF text # << >> /\ IsSpace(Head(text)) THEN trimStart(Tail(text)) ELSE text

RECURSIVE trimEnd(_)
trimEnd(text) ==
    IF text # << >> /\ IsSpace(text[Len(text)])
    THEN trimEnd(SubSeq(text, 1, Len(text) - 1)) ELSE text

trim(text) == trimEnd(trimStart(text))

\* A JavaScript number: NaN, or a value.
NaN == [nan |-> TRUE]

Num(n) == [nan |-> FALSE, value |-> n]

\* x > n and x <= n: both false when x is NaN.
Gt(x, n) == ~x.nan /\ x.value > n

Le(x, n) == ~x.nan /\ x.value <= n

\* The value of the longest prefix of text that is made of digits.
RECURSIVE digitsValue(_, _)
digitsValue(text, acc) ==
    IF text # << >> /\ Head(text) \in DOMAIN Digit
    THEN digitsValue(Tail(text), 10 * acc + Digit[Head(text)])
    ELSE acc

\* parseFloat: leading white space is skipped, then an optional sign and the
\* longest run of digits are read; NaN when no digit is read.  (The fields
\* hold no decimal point or exponent here.)
parseFloat(text) ==
    LET s == trimStart(text)
        negative == s # << >> /\ Head(s) = "-"
        body == IF s # << >> /\ Head(s) \in {"-", "+"} THEN Tail(s) ELSE s
    IN  IF body = << >> \/ Head(body) \notin DOMAIN Digit THEN NaN
        ELSE Num(IF negative THEN 0 - digitsValue(body, 0) ELSE digitsValue(body, 0))

\* What the user may have typed in the name and price fields.
NameTexts == { << >>, <<" ">>, <<"P">>, <<" ", "P", " ">> }

PriceTexts == { << >>, <<"x">>, <<"0">>, <<"-", "1">>, <<"1">>, <<" ", "2", "x">> }

\* The messages of the add handlers.
addedMessage(itemName, itemPrice) ==
    [kind |-> "added to bill", name |-> itemName, price |-> itemPrice.value]

nameMessage == [kind |-> "Please enter an item name!"]

priceMessage == [kind |-> "Please enter a valid price greater than 0!"]

postAddedMessage == [kind |-> "Post added successfully!"]

fieldsMessage == [kind |-> "Please fill in all fields (title, content, and category)!"]

\* Mutant of billingForm: the name is tested and stored as typed, not
\* trimmed.
billingFormUntrimmed(name, price, t, metadata) ==
    LET itemPrice == parseFloat(price)
    IN  IF name # << >> /\ Gt(itemPrice, 0)
        THEN [adds |-> TRUE,
              payload |-> Spread([id |-> t, name |-> name, price |-> itemPrice.value,
                                  addedAt |-> toISOString(t)], metadata),
              message |-> addedMessage(name, itemPrice)]
        ELSE [adds |-> FALSE,
              message |-> IF name = << >> THEN nameMessage
                          ELSE IF Le(itemPrice, 0) THEN priceMessage
                          ELSE NoNotification]

\* What a billing add handler does with the form's fields at time t: whether
\* it adds, the item it adds, and the message it passes to showNotification
\* (NoNotification when it does not call showNotification).
billingForm(name, price, t, metadata) ==
    LET itemName == trim(name)
        itemPrice == parseFloat(price)
    IN  IF itemName # << >> /\ Gt(itemPrice, 0)
        THEN [adds |-> TRUE,
              payload |-> Spread([id |-> t, name |-> itemName, price |-> itemPrice.value,
                                  addedAt |-> toISOString(t)], metadata),
              message |-> addedMessage(itemName, itemPrice)]
        ELSE [adds |-> FALSE,
              message |-> IF itemName = << >> THEN nameMessage
                          ELSE IF Le(itemPrice, 0) THEN priceMessage
                          ELSE NoNotification]

\* handleAddPost's decision on the form's fields at time t.
postForm(title, content, category, t) ==
    IF trim(title) # << >> /\ trim(content) # << >> /\ category # ""
    THEN [adds |-> TRUE,
          payload |-> [id |-> t, title |-> trim(title), content |-> trim(content),
                       category |-> category, createdAt |-> toISOString(t)],
          message |-> postAddedMessage]
    ELSE [adds |-> FALSE, message |-> fieldsMessage]

\* --------------------------------------------------- NotificationProvider
\* The delay of the hide timer, in seconds (setTimeout(..., 3000)).
HideDelay == 3

\* The effect's cleanup: clearTimeout(timer), timer being the one the effect
\* set for the notification that is now replaced.
Cleanup(pending) == {t \in pending : t.message # notification}

\* The effect's body: a timer is set when the notification is not null.
Effect(message) ==
    IF message = NoNotification THEN {}
    ELSE {[message |-> message, left |-> HideDelay]}

\* One second passes for every pending timer.
Aged(pending) == {[t EXCEPT !.left = @ - 1] : t \in pending}

\* The timers whose delay is over.
Due(pending) == {t \in pending : t.left = 0}

\* Mutant of showNotification: the effect returns no cleanup, so the timer of
\* the notification that is replaced stays pending.
showNotificationNoCleanup(message) ==
    IF message = notification
    THEN UNCHANGED <<notification, timers>>
    ELSE /\ notification' = message
         /\ timers' = timers \cup Effect(message)

\* showNotification(message): setNotification(message); when the state
\* changes, the effect's cleanup clears the pending timer and the effect
\* starts a new one.  Setting the state to the value it has re-runs nothing.
showNotification(message) ==
    IF message = notification
    THEN UNCHANGED <<notification, timers>>
    ELSE /\ notification' = message
         /\ timers' = Cleanup(timers) \cup Effect(message)

\* Mutant of TimerAdvance: the timer's callback does not clear the state.
TimerAdvanceKeeps ==
    /\ timers # {}
    /\ timers' = Aged(timers) \ Due(Aged(timers))
    /\ notification' = notification
    /\ UNCHANGED <<route, now, cartS, cartR, itemsR, items, posts, itemsS, user, last, history>>

\* One second passes for the pending timers; the callback of a timer whose
\* delay is over sets the state to null, and the state's change runs the
\* effect's cleanup (the effect sets no timer for null).
TimerAdvance ==
    /\ timers # {}
    /\ IF Due(Aged(timers)) = {}
       THEN /\ timers' = Aged(timers)
            /\ notification' = notification
       ELSE /\ timers' = Aged(Cleanup(timers)) \ Due(Aged(timers))
            /\ notification' = NoNotification
    /\ UNCHANGED <<route, now, cartS, cartR, itemsR, items, posts, itemsS, user, last, history>>

\* The application is closed: the provider unmounts, the effect's cleanup
\* clears the pending timer and the component states are gone.
ProviderUnmount ==
    /\ route # "Closed"
    /\ route' = "Closed"
    /\ notification' = NoNotification
    /\ timers' = Cleanup(timers)
    /\ UNCHANGED <<now, cartS, cartR, itemsR, items, posts, itemsS, user, last, history>>

\* ------------------------------------------------------- the add handlers
\* The part the add handlers share: the call of showNotification, if any.
Submit(form, fields, pre) ==
    /\ history.ops < MaxOps
    /\ form.adds => Len(pre) < MaxItems
    /\ IF form.message = NoNotification
       THEN UNCHANGED <<notification, timers>>
       ELSE showNotification(form.message)
    /\ Record("Submit", now, [fields |-> fields, message |-> form.message], pre)

\* BillingUseState: addItem
StateAddItem(name, price) ==
    LET form == billingForm(name, price, now, << >>)
    IN  /\ route = "BillingUseState"
        /\ Submit(form, [name |-> name, price |-> price], itemsS)
        /\ itemsS' = IF form.adds THEN Append(itemsS, form.payload) ELSE itemsS
        /\ UNCHANGED <<route, now, cartS, cartR, itemsR, items, posts, user>>

\* BillingUseReducer: addItem
ReducerAddItem(name, price) ==
    LET form == billingForm(name, price, now, [category |-> "general"])
    IN  /\ route = "BillingUseReducer"
        /\ Submit(form, [name |-> name, price |-> price], itemsR)
        /\ itemsR' = IF form.adds
                     THEN billingReducer(itemsR, [type |-> "ADD_ITEM", payload |-> form.payload])
                     ELSE itemsR
        /\ UNCHANGED <<route, now, cartS, cartR, items, posts, itemsS, user>>

\* BillingRedux: handleAddItem
handleAddItem(name, price) ==
    LET form == billingForm(name, price, now, [category |-> "general"])
    IN  /\ route = "BillingRedux"
        /\ Submit(form, [name |-> name, price |-> price], items)
        /\ items' = IF form.adds THEN addItem(items, form.payload, now) ELSE items
        /\ UNCHANGED <<route, now, cartS, cartR, itemsR, posts, itemsS, user>>

\* BlogUseReducer: handleAddPost
handleAddPost(title, content, category) ==
    LET form == postForm(title, content, category, now)
    IN  /\ route = "BlogUseReducer"
        /\ Submit(form, [title |-> title, content |-> content, category |-> category], posts)
        /\ posts' = IF form.adds
                    THEN blogReducer(posts, [type |-> "ADD_POST", payload |-> form.payload])
                    ELSE posts
        /\ UNCHANGED <<route, now, cartS, cartR, itemsR, items, itemsS, user>>

FormRoutes == {"BillingUseState", "BillingUseReducer", "BillingRedux", "BlogUseReducer"}

InitForm ==
    /\ route \in FormRoutes
    /\ now = Epoch
    /\ cartS = << >>
    /\ cartR = << >>
    /\ itemsR = << >>
    /\ items = << >>
    /\ posts = << firstPost >>
    /\ itemsS = << >>
    /\ notification = NoNotification
    /\ timers = {}
    /\ user = initialUser
    /\ last = [op |-> "Init", id |-> 0, arg |-> 0, pre |-> << >>]
    /\ history = [adds |-> 0, onlyAdds |-> TRUE, ops |-> 0]

NextForm ==
    \/ Tick
    \/ \E name \in NameTexts, price \in PriceTexts : StateAddItem(name, price)
    \/ \E name \in NameTexts, price \in PriceTexts : ReducerAddItem(name, price)
    \/ \E name \in NameTexts, price \in PriceTexts : handleAddItem(name, price)
    \/ \E title \in NameTexts, content \in {<< >>, <<"P">>}, category \in {"", "Lifestyle"} :
          handleAddPost(title, content, category)
    \/ TimerAdvance
    \/ ProviderUnmount

\* The add forms of the billing and blog pages with the notification provider.
SpecForm == InitForm /\ [][NextForm]_vars

\* ------------------------------------------------------ claims on the forms
BillingVariants == {"BillingUseState", "BillingUseReducer", "BillingRedux"}

\* A name that is not empty and has no white space at either end.
IsTrimmedName(name) ==
    name # << >> /\ ~IsSpace(name[1]) /\ ~IsSpace(name[Len(name)])

\* The text has a character that is not white space.
HasInk(text) == \E i \in DOMAIN text : ~IsSpace(text[i])

\* C21: every billing item was added with a non-empty trimmed name and a price
\* > 0: the add handlers of the three billing variants add only when
\* name.trim() is not empty and the parsed price is > 0, and leave the
\* collection unchanged for every other input (empty name, zero, negative or
\* non-numeric price).
C21_AddValidated ==
    route \in BillingVariants =>
        /\ \A i \in DOMAIN Coll : IsTrimmedName(Coll[i].name) /\ Coll[i].price > 0
        /\ last.op = "Submit" =>
              IF HasInk(last.arg.fields.name) /\ Gt(parseFloat(last.arg.fields.price), 0)
              THEN /\ Len(Coll) = Len(last.pre) + 1
                   /\ \A i \in DOMAIN last.pre : Coll[i] = last.pre[i]
                   /\ Coll[Len(Coll)].name = trim(last.arg.fields.name)
                   /\ Coll[Len(Coll)].price = parseFloat(last.arg.fields.price).value
              ELSE Coll = last.pre

\* The form held a name and a price that is not a number, the collection held
\* an item, and the handler left the collection as it was.
C21_Witness ==
    /\ route \in BillingVariants
    /\ last.op = "Submit"
    /\ last.arg.fields = [name |-> <<" ", "P", " ">>, price |-> <<"x">>]
    /\ Len(last.pre) = 1
    /\ last.pre[1].name = <<"P">>
    /\ Coll = last.pre

ValidationMessages == {nameMessage, priceMessage, fieldsMessage}

\* C22: every validation failure of a billing or blog add handler is surfaced
\* to the user: whenever the handler is invoked and does not add an item, it
\* calls showNotification with a validation message.
C22_FailureSurfaced ==
    (last.op = "Submit" /\ Coll = last.pre) => last.arg.message \in ValidationMessages

\* ======================================================== default metadata
\* Payloads addItem may be given by a caller other than handleAddItem: without
\* metadata, not taxable, and with all metadata supplied.
BarePayloads(t) ==
    { [id |-> t, name |-> "Pen", price |-> 100],
      [id |-> t, name |-> "Pen", price |-> 100, taxable |-> FALSE],
      [id |-> t, name |-> "Pen", price |-> 100, category |-> "food",
       addedAt |-> toISOString(1), taxable |-> TRUE] }

SliceAddBare(payload) ==
    /\ Len(items) < MaxItems
    /\ SliceStep("Add", payload.id, payload, addItem(items, payload, now))

NextBare ==
    \/ Next
    \/ \E payload \in BarePayloads(now) : SliceAddBare(payload)

\* The store when addItem is also given payloads without metadata.
SpecBare == Init /\ [][NextBare]_vars

MetadataFields == {"category", "addedAt", "taxable"}

C24_SetReplaces ==
    route = "BillingRedux" =>
        /\ last.op = "Set" => items = last.arg
        /\ \A payload \in SavedInvoices \cup UnvalidatedInvoices :
              setItems(items, payload) = payload

\* setItems was given an invoice that holds null while the collection held an
\* item, and the collection is that invoice.
C24_Witness ==
    /\ route = "BillingRedux"
    /\ last.op = "Set"
    /\ Len(last.pre) = 1
    /\ last.arg \in UnvalidatedInvoices
    /\ items = last.arg

\* ============================================================ notifications
\* The forms and the provider, with time passing for a pending timer.
SpecNotify == SpecForm /\ WF_vars(TimerAdvance)

\* The seconds left on the pending timers.
TimeLeft == {t.left : t \in timers}

\* C25: notifications auto-hide: whenever a notification is displayed and no
\* further showNotification call is made, the notification is cleared when the
\* 3 seconds of its timer are over (eventually the state is null); a timer is
\* pending exactly while a notification is displayed, the timer of a
\* notification that is replaced is cancelled and a full one started, and no
\* timer is pending once the provider has unmounted.
C25_AutoHide ==
    /\ [](/\ (notification # NoNotification) <=>
                (timers # {} /\ TimeLeft \subseteq 1..HideDelay)
          /\ (notification = NoNotification) <=> (timers = {})
          /\ route = "Closed" => timers = {})
    /\ [][/\ (notification' # notification /\ notification' # NoNotification)
                => TimeLeft' = {HideDelay}
          /\ (notification' # notification /\ notification' = NoNotification)
                => (1 \in TimeLeft \/ route' = "Closed")
          /\ (notification' = notification /\ notification # NoNotification)
                => \A n \in TimeLeft' : n \in TimeLeft \/ n + 1 \in TimeLeft]_vars
    /\ \A k \in 0..MaxOps :
          (notification # NoNotification /\ history.ops = k)
              ~> (notification = NoNotification \/ history.ops # k)

\* The last handler call showed a message, no call followed, and the timer has
\* cleared it while the provider was mounted.
C25_Witness ==
    /\ route \in FormRoutes
    /\ last.op = "Submit"
    /\ last.arg.message # NoNotification
    /\ notification = NoNotification
    /\ timers = {}

\* ============================================================== navigation
\* The pages the router changes between here.
MountRoutes == {"BillingUseState", "BillingUseReducer", "BillingRedux", "BlogUseReducer"}

\* Mutant of Navigate: the store's items are treated as component state and
\* start empty with the mount.
NavigateResetsStore(target) ==
    /\ target \in MountRoutes \ {route}
    /\ route' = target
    /\ cartS' = << >>
    /\ cartR' = << >>
    /\ itemsR' = << >>
    /\ itemsS' = << >>
    /\ posts' = << firstPost >>
    /\ items' = << >>
    /\ last' = [op |-> "Navigate", id |-> 0, arg |-> target, pre |-> items]
    /\ UNCHANGED <<now, notification, timers, user, history>>

\* A route change: the component shown unmounts and its useState / useReducer
\* state is gone; the component of the target route mounts with the initial
\* value of its hook.  The store is created once, outside the components.
Navigate(target) ==
    /\ target \in MountRoutes \ {route}
    /\ route' = target
    /\ cartS' = << >>
    /\ cartR' = << >>
    /\ itemsR' = << >>
    /\ itemsS' = << >>
    /\ posts' = << firstPost >>
    /\ last' = [op |-> "Navigate", id |-> 0, arg |-> target, pre |-> items]
    /\ UNCHANGED <<now, items, notification, timers, user, history>>

\* BillingUseState: addItem with a valid form
StateAddValid == StateAddItem(<<"P">>, <<"1">>)

NextMount ==
    \/ Next
    \/ StateAddValid
    \/ \E target \in MountRoutes : Navigate(target)

\* The pages with the router changing between them.
SpecMount == Init /\ [][NextMount]_vars

\* C26: the data of the Redux variant persists across re-mounts: a route
\* change leaves state.billing.items as it is and nothing changes it while
\* BillingRedux is not mounted, so after any sequence of route changes that
\* ends in BillingRedux the items are those it held when it unmounted; the
\* useState and useReducer variants start from their initial collection with
\* each mount.
C26_StoreOutlivesMounts ==
    /\ [][/\ route' # route => items' = items
          /\ items' # items => (route = "BillingRedux" /\ route' = "BillingRedux")
          /\ route' # route =>
                /\ route' # "BillingRedux" => Coll' = InitialColl'
                /\ itemsS' = << >> /\ itemsR' = << >> /\ posts' = << firstPost >>
                /\ cartS' = << >> /\ cartR' = << >>]_vars
    /\ [](last.op = "Navigate" => items = last.pre)

\* BillingRedux was mounted again and shows the item it held before.
C26_Witness ==
    /\ route = "BillingRedux"
    /\ last.op = "Navigate"
    /\ Len(items) = 1
    /\ items = last.pre

\* ==================================================================== frame
FrameOps == {"Remove", "Update", "ApplyDiscount", "RemoveDiscount", "UpdateQty"}

\* C27: frame of the id-targeted operations: Remove(id), Update(id, patch),
\* ApplyDiscount(id, d), RemoveDiscount(id) and UpdateQty(id, delta) leave
\* every item whose id differs from id present, at its place among the others
\* and unchanged in every field; in particular the qty > 0 filter of UpdateQty
\* removes no item but the targeted one.
C27_Frame ==
    last.op \in FrameOps =>
        /\ Without(Coll, last.id) = Without(last.pre, last.id)
        /\ \A i \in DOMAIN last.pre :
              last.pre[i].id # last.id => \E j \in DOMAIN Coll : Coll[j] = last.pre[i]

\* A discount was applied to the first of two billing items with distinct ids:
\* the first changed, the second is as it was.
C27_Witness ==
    /\ route \in BillingRoutes
    /\ last.op = "ApplyDiscount"
    /\ Len(last.pre) = 2
    /\ last.pre[1].id = last.id
    /\ last.pre[2].id # last.id
    /\ Coll[1] # last.pre[1]
    /\ Coll[2] = last.pre[2]

\* ================================================================= cart ids
\* C28: in every cart reached from the empty cart by AddOrIncrement and
\* UpdateQty no two items have the same id, so the cart holds at most as many
\* items as the catalogue has distinct product ids (2).
C28_CartIdsUnique ==
    route \in CartRoutes =>
        /\ DistinctIds(Cart)
        /\ Len(Cart) <= Cardinality(ProductIds)
        /\ Cardinality(ProductIds) = 2

\* A product was added again to a cart that holds both products of the
\* catalogue, and the cart still has two items.
C28_Witness ==
    /\ route \in CartRoutes
    /\ last.op = "AddOrIncrement"
    /\ Len(last.pre) = 2
    /\ HasId(last.pre, last.id)
    /\ Len(Cart) = 2
    /\ {Cart[i].id : i \in DOMAIN Cart} = ProductIds

\* ============================================================= side by side
\* Two variants of a page given the same calls, one after the other call by
\* call: the two carts, and the two billing reducers.
PairRoutes == {"CartPair", "BillingPair"}

InitPair ==
    /\ route \in PairRoutes
    /\ now = Epoch
    /\ cartS = << >>
    /\ cartR = << >>
    /\ itemsR = << >>
    /\ items = << >>
    /\ posts = << firstPost >>
    /\ itemsS = << >>
    /\ notification = NoNotification
    /\ timers = {}
    /\ user = initialUser
    /\ last = [op |-> "Init", id |-> 0, arg |-> 0, pre |-> << >>]
    /\ history = [adds |-> 0, onlyAdds |-> TRUE, ops |-> 0]

\* The same call made on both carts.
CartPairStep(op, id, arg, nextS, nextR) ==
    /\ route = "CartPair"
    /\ cartS' = nextS
    /\ cartR' = nextR
    /\ last' = [op |-> op, id |-> id, arg |-> arg, pre |-> cartS]
    /\ UNCHANGED <<route, now, itemsR, items, posts, itemsS, user, notification, timers, history>>

PairAddToCart(product) ==
    /\ QtyRoom(cartS, product.id, 1)
    /\ QtyRoom(cartR, product.id, 1)
    /\ CartPairStep("AddOrIncrement", product.id, product,
            addToCart(cartS, product),
            cartReducer(cartR, [type |-> "ADD", payload |-> product]))

PairUpdateQuantity(id, amount) ==
    /\ QtyRoom(cartS, id, amount)
    /\ QtyRoom(cartR, id, amount)
    /\ CartPairStep("UpdateQty", id, amount,
            updateQuantity(cartS, id, amount),
            cartReducer(cartR, [type |-> "UPDATE_QTY", id |-> id, amount |-> amount]))

\* The same action dispatched to billingReducer and to the slice.
BillingPairStep(op, id, arg, action, next) ==
    /\ route = "BillingPair"
    /\ history.ops < MaxOps
    /\ itemsR' = billingReducer(itemsR, action)
    /\ items' = next
    /\ Record(op, id, arg, itemsR)
    /\ UNCHANGED <<route, now, cartS, cartR, posts, itemsS, user, notification, timers>>

PairAdd(name, price) ==
    /\ Len(itemsR) < MaxItems
    /\ Len(items) < MaxItems
    /\ BillingPairStep("Add", now, billPayload(name, price, now),
            [type |-> "ADD_ITEM", payload |-> billPayload(name, price, now)],
            addItem(items, billPayload(name, price, now), now))

PairRemove(id) ==
    BillingPairStep("Remove", id, 0, [type |-> "REMOVE_ITEM", payload |-> [id |-> id]],
        removeItem(items, [id |-> id]))

PairClear ==
    BillingPairStep("Clear", 0, 0, [type |-> "CLEAR_ITEMS"], clearItems(items))

PairApplyDiscount(id, discount) ==
    BillingPairStep("ApplyDiscount", id, discount,
        [type |-> "APPLY_DISCOUNT", payload |-> [id |-> id, discount |-> discount]],
        applyDiscount(items, [id |-> id, discount |-> discount], now))

NextPair ==
    \/ Tick
    \/ \E i \in DOMAIN products : PairAddToCart(products[i])
    \/ \E product \in Relabelled : PairAddToCart(product)
    \/ \E id \in ProductIds \cup {0}, amount \in Deltas : PairUpdateQuantity(id, amount)
    \/ \E name \in BillNames, price \in Prices : PairAdd(name, price)
    \/ \E id \in TargetIds : PairRemove(id)
    \/ PairClear
    \/ \E id \in TargetIds, discount \in Discounts : PairApplyDiscount(id, discount)

SpecPair == InitPair /\ [][NextPair]_vars

\* C29: the useState cart and the useReducer cart are equivalent: given the
\* same sequence of addToCart(product) and updateQuantity(id, amount) calls
\* from the empty cart, they hold equal carts (same items, same order, same
\* qty) after every step.
C29_CartsEquivalent ==
    route = "CartPair" => cartS = cartR

\* Both carts took an UpdateQty that removed a line and hold the same single
\* line.
C29_Witness ==
    /\ route = "CartPair"
    /\ last.op = "UpdateQty"
    /\ Len(last.pre) = 2
    /\ Len(cartS) = 1
    /\ cartS = cartR

\* The fields the two billing variants share.
SharedFields == {"id", "name", "price", "originalPrice"}

Shared(item) == [k \in DOMAIN item \cap SharedFields |-> item[k]]

\* C30: the useReducer billing reducer and the Redux billing slice are
\* equivalent on their shared vocabulary: given the same sequence of add,
\* remove, clear and applyDiscount actions from the empty collection, after
\* every step they hold the same items in the same order with equal id, name,
\* price and originalPrice.
C30_BillingEquivalent ==
    route = "BillingPair" =>
        /\ Len(itemsR) = Len(items)
        /\ \A i \in DOMAIN itemsR : Shared(itemsR[i]) = Shared(items[i])

\* The orders in which the n items of a collection can be visited.
Orders(n) == {f \in [1..n -> 1..n] : \A i, j \in 1..n : f[i] = f[j] => i = j}

\* applyDiscount(id, d) dispatched once for each item of coll, the items being
\* taken in the given order: the first k dispatches.
RECURSIVE EachDiscounted(_, _, _, _, _, _)
EachDiscounted(coll, order, k, state, discount, t) ==
    IF k = 0 THEN state
    ELSE applyDiscount(
            EachDiscounted(coll, order, k - 1, state, discount, t),
            [id |-> coll[order[k]].id, discount |-> discount], t)

PricingFields == {"price", "originalPrice", "discountApplied"}

Discounted(item) == [k \in DOMAIN item \cap PricingFields |-> item[k]]

\* C31: applyBulkDiscount(d) gives every item the same price, originalPrice
\* and discountApplied as applyDiscount(id, d) dispatched once for each item of
\* the collection, in any order; it adds and removes no item, and items
\* already discounted are re-based on their originalPrice.
C31_BulkIsEachOnce ==
    (route = "BillingRedux" /\ last.op = "BulkDiscount") =>
        /\ Len(items) = Len(last.pre)
        /\ \A i \in DOMAIN items :
              /\ items[i].id = last.pre[i].id
              /\ items[i].price = discountedPrice(basePriceOf(last.pre[i]), last.arg)
        /\ \A order \in Orders(Len(last.pre)) :
              \A i \in DOMAIN items :
                 Discounted(items[i]) =
                    Discounted(EachDiscounted(last.pre, order, Len(last.pre),
                                              last.pre, last.arg, now)[i])

\* C32: in every state of the Redux billing slice reachable by addItem,
\* updateItem (a patch of name or price), applyDiscount, applyBulkDiscount,
\* removeDiscount, removeItem and clearItems, each item has originalPrice
\* exactly when it has discountApplied, and every such item satisfies
\* price = originalPrice * (1 - discountApplied).
C32_DiscountConsistent ==
    route = "BillingRedux" =>
        \A i \in DOMAIN items :
           /\ Has(items[i], "originalPrice") <=> Has(items[i], "discountApplied")
           /\ Has(items[i], "originalPrice") =>
                 items[i].price =
                    discountedPrice(items[i].originalPrice, items[i].discountApplied)

\* ======================================================= the billing views
\* What the user types before pressing Add: each name goes with one price.
BillForms ==
    { [name |-> <<"P">>, price |-> <<"1", "0", "0">>],
      [name |-> <<" ", "Q">>, price |-> <<"2", "0", "0">>],
      [name |-> <<"P">>, price |-> <<"x">>] }

\* The percentage the -10% button passes to the handler.
ButtonPercent == 10

removedMessage == [kind |-> "Item removed from bill"]

clearedMessage == [kind |-> "All items cleared from bill"]

discountMessage(discountPercent) == [kind |-> "% discount applied", percent |-> discountPercent]

\* disabled={!!item.originalPrice}
DiscountDisabled(item) == TruthyNum(item, "originalPrice")

\* The part the row and clear handlers share: the call of showNotification.
ViewStep(op, id, arg, pre, message) ==
    /\ history.ops < MaxOps
    /\ showNotification(message)
    /\ Record(op, id, arg, pre)

\* BillingRedux: handleRemoveItem, from the remove button of row i
handleRemoveItem(i) ==
    /\ route = "BillingRedux"
    /\ i \in DOMAIN items
    /\ items' = removeItem(items, [id |-> items[i].id])
    /\ ViewStep("Remove", items[i].id, 0, items, removedMessage)
    /\ UNCHANGED <<route, now, cartS, cartR, itemsR, posts, itemsS, user>>

\* BillingRedux: handleClearAllItems
handleClearAllItems ==
    /\ route = "BillingRedux"
    /\ Len(items) > 0
    /\ items' = clearItems(items)
    /\ ViewStep("Clear", 0, 0, items, clearedMessage)
    /\ UNCHANGED <<route, now, cartS, cartR, itemsR, posts, itemsS, user>>

\* Mutant of handleApplyDiscount: discountPercent is dispatched undivided.
handleApplyDiscountUndivided(i, discountPercent) ==
    /\ route = "BillingRedux"
    /\ i \in DOMAIN items
    /\ ~DiscountDisabled(items[i])
    /\ items' = applyDiscount(items,
                    [id |-> items[i].id, discount |-> 100 * discountPercent], now)
    /\ ViewStep("ApplyDiscount", items[i].id, discountPercent, items,
                discountMessage(discountPercent))
    /\ UNCHANGED <<route, now, cartS, cartR, itemsR, posts, itemsS, user>>

\* BillingRedux: handleApplyDiscount, from the -10% button of row i (the
\* discount is discountPercent / 100, which is discountPercent hundredths)
handleApplyDiscount(i, discountPercent) ==
    /\ route = "BillingRedux"
    /\ i \in DOMAIN items
    /\ ~DiscountDisabled(items[i])
    /\ items' = applyDiscount(items,
                    [id |-> items[i].id, discount |-> discountPercent], now)
    /\ ViewStep("ApplyDiscount", items[i].id, discountPercent, items,
                discountMessage(discountPercent))
    /\ UNCHANGED <<route, now, cartS, cartR, itemsR, posts, itemsS, user>>

\* BillingUseReducer: removeItem, from the remove button of row i
ReducerRemoveItem(i) ==
    /\ route = "BillingUseReducer"
    /\ i \in DOMAIN itemsR
    /\ itemsR' = billingReducer(itemsR,
                    [type |-> "REMOVE_ITEM", payload |-> [id |-> itemsR[i].id]])
    /\ ViewStep("Remove", itemsR[i].id, 0, itemsR, removedMessage)
    /\ UNCHANGED <<route, now, cartS, cartR, items, posts, itemsS, user>>

\* BillingUseReducer: clearAllItems
clearAllItems ==
    /\ route = "BillingUseReducer"
    /\ Len(itemsR) > 0
    /\ itemsR' = billingReducer(itemsR, [type |-> "CLEAR_ITEMS"])
    /\ ViewStep("Clear", 0, 0, itemsR, clearedMessage)
    /\ UNCHANGED <<route, now, cartS, cartR, items, posts, itemsS, user>>

\* BillingUseReducer: applyDiscount, from the -10% button of row i
ReducerApplyDiscount(i, discountPercent) ==
    /\ route = "BillingUseReducer"
    /\ i \in DOMAIN itemsR
    /\ ~DiscountDisabled(itemsR[i])
    /\ itemsR' = billingReducer(itemsR,
                    [type |-> "APPLY_DISCOUNT",
                     payload |-> [id |-> itemsR[i].id, discount |-> discountPercent]])
    /\ ViewStep("ApplyDiscount", itemsR[i].id, discountPercent, itemsR,
                discountMessage(discountPercent))
    /\ UNCHANGED <<route, now, cartS, cartR, items, posts, itemsS, user>>

ViewRoutes == {"BillingUseReducer", "BillingRedux"}

InitView == InitForm /\ route \in ViewRoutes

NextView ==
    \/ Tick
    \/ TimerAdvance
    \/ \E form \in BillForms : handleAddItem(form.name, form.price)
    \/ \E i \in 1..MaxItems : handleRemoveItem(i)
    \/ handleClearAllItems
    \/ \E i \in 1..MaxItems : handleApplyDiscount(i, ButtonPercent)
    \/ \E form \in BillForms : ReducerAddItem(form.name, form.price)
    \/ \E i \in 1..MaxItems : ReducerRemoveItem(i)
    \/ clearAllItems
    \/ \E i \in 1..MaxItems : ReducerApplyDiscount(i, ButtonPercent)

\* The billing pages as the user drives them: the add form, and the buttons
\* of the rows that are shown.
SpecView == InitView /\ [][NextView]_vars

\* The price an item was added with: the one typed with its name.
AddedPrice(item) ==
    LET form == CHOOSE f \in BillForms :
                    trim(f.name) = item.name /\ Gt(parseFloat(f.price), 0)
    IN  parseFloat(form.price).value

\* C33: through the billing views (useReducer and Redux variants), where the
\* -10% button is disabled once an item has originalPrice, an item is
\* discounted at most once: each item's price is either the price it was added
\* with or 0.9 times that price, and originalPrice, when present, is the price
\* it was added with.
C33_DiscountedAtMostOnce ==
    route \in ViewRoutes =>
        \A i \in DOMAIN Coll :
           /\ Coll[i].price \in {AddedPrice(Coll[i]),
                                 discountedPrice(AddedPrice(Coll[i]), ButtonPercent)}
           /\ Has(Coll[i], "originalPrice") =>
                 Coll[i].originalPrice = AddedPrice(Coll[i])

\* The -10% button of a row was pressed in either variant: the row went from
\* 200 to 180 and keeps 200 as its originalPrice.
C33_Witness ==
    /\ route \in ViewRoutes
    /\ last.op = "ApplyDiscount"
    /\ \E i \in DOMAIN Coll :
          /\ ~Has(last.pre[i], "originalPrice")
          /\ last.pre[i].price = 200
          /\ Coll[i].price = 180
          /\ Coll[i].originalPrice = 200

\* UpdateQty(id, delta) followed by UpdateQty(id, -delta), in each variant.
ThereAndBackS(cart, id, delta) ==
    updateQuantity(updateQuantity(cart, id, delta), id, 0 - delta)

ThereAndBackR(cart, id, delta) ==
    cartReducer(
        cartReducer(cart, [type |-> "UPDATE_QTY", id |-> id, amount |-> delta]),
        [type |-> "UPDATE_QTY", id |-> id, amount |-> 0 - delta])

\* C34: for every item present in the cart and every integer delta with
\* qty + delta >= 1, UpdateQty(id, delta) followed by UpdateQty(id, -delta)
\* restores the cart to its prior state; +1 then -1 on a present item always
\* restores the prior cart.
C34_UpdateQtyRoundTrip ==
    route \in CartRoutes =>
        \A i \in DOMAIN Cart :
           /\ \A delta \in Deltas :
                 Cart[i].qty + delta >= 1 =>
                    /\ ThereAndBackS(Cart, Cart[i].id, delta) = Cart
                    /\ ThereAndBackR(Cart, Cart[i].id, delta) = Cart
           /\ ThereAndBackS(Cart, Cart[i].id, 1) = Cart
           /\ ThereAndBackR(Cart, Cart[i].id, 1) = Cart

\* An UpdateQty with a non-zero amount has changed a line of a two-line cart
\* without removing it, and the opposite amount leads back to the cart before.
C34_Witness ==
    /\ route \in CartRoutes
    /\ last.op = "UpdateQty"
    /\ last.arg # 0
    /\ Len(last.pre) = 2
    /\ Len(Cart) = 2
    /\ Cart # last.pre
    /\ updateQuantity(Cart, last.id, 0 - last.arg) = last.pre
    /\ cartReducer(Cart, [type |-> "UPDATE_QTY", id |-> last.id,
                          amount |-> 0 - last.arg]) = last.pre

\* C35: in the notification provider at most one auto-hide timer is pending
\* at any time, and a timer set for an earlier notification never clears a
\* later, different notification: whenever the notification on display is
\* cleared while the provider is mounted, the timer that is over is the one
\* set for that notification, and no other timer is pending.
C35_OneTimer ==
    /\ [](/\ Cardinality(timers) <= 1
          /\ \A t \in timers : t.message = notification)
    /\ [][(notification # NoNotification /\ notification' = NoNotification
              /\ route' # "Closed")
            => /\ timers = {[message |-> notification, left |-> 1]}
               /\ timers' = {}]_vars

\* The first handler call added an item and showed its message; the second
\* showed a different message, whose own timer has one second left.
C35_Witness ==
    /\ route \in BillingVariants
    /\ last.op = "Submit"
    /\ history.ops = 2
    /\ Len(last.pre) = 1
    /\ last.arg.message = priceMessage
    /\ notification = priceMessage
    /\ timers = {[message |-> priceMessage, left |-> 1]}

\* C36: after every call showNotification(m), m stays displayed for a full 3
\* seconds counted from that call unless a later call replaces it, including
\* when m is equal to the message already on display: each call leaves m on
\* display with a timer of the full delay, and m is taken down only when a
\* timer is over or the provider unmounts.
C36_FullDelayFromEachCall ==
    [][/\ (history'.ops # history.ops /\ last'.op = "Submit"
              /\ last'.arg.message # NoNotification)
          => /\ notification' = last'.arg.message
             /\ timers' = {[message |-> last'.arg.message, left |-> HideDelay]}
       /\ (notification # NoNotification /\ notification' = NoNotification)
          => (1 \in TimeLeft \/ route' = "Closed")]_vars

\* ======================================================== RegistrationPage
requiredMessage == [kind |-> "Please fill in all required fields!"]

registeredMessage(name) == [kind |-> "User Registered Successfully: ", name |-> name]

\* handleChange: the updater it passes to setUser for the event e, e being
\* the target's name, value, type and checked.
handleChange(prevUser, e) ==
    IF e.type = "checkbox"
    THEN IF e.name = "hobbies"
         THEN Spread(prevUser,
                [hobbies |-> IF e.checked
                             THEN Append(prevUser.hobbies, e.value)
                             ELSE SelectSeq(prevUser.hobbies,
                                            LAMBDA hobby : hobby # e.value)])
         ELSE [prevUser EXCEPT ![e.name] = e.checked]
    ELSE [prevUser EXCEPT ![e.name] = e.value]

\* Mutant of handleSubmit: the form is not reset after a registration.
handleSubmitKeepsFields(current) ==
    IF trim(current.name) = << >> \/ trim(current.email) = << >>
          \/ trim(current.phone) = << >>
    THEN [message |-> requiredMessage, user |-> current]
    ELSE [message |-> registeredMessage(current.name), user |-> current]

\* handleSubmit: the message it passes to showNotification and the fields it
\* leaves.
handleSubmit(current) ==
    IF trim(current.name) = << >> \/ trim(current.email) = << >>
          \/ trim(current.phone) = << >>
    THEN [message |-> requiredMessage, user |-> current]
    ELSE [message |-> registeredMessage(current.name), user |-> initialUser]

\* What the user may type in a required field.
RequiredTexts == { << >>, <<" ">>, <<"A">> }

\* The change events the form's inputs can send: a text typed in a required
\* field, a choice of gender, a city, a hobby's checkbox turned the other way,
\* and the newsletter's.
ChangeEvents ==
    {[name |-> n, value |-> v, type |-> "text", checked |-> FALSE] :
        n \in {"name", "email", "phone"}, v \in RequiredTexts}
    \cup {[name |-> "gender", value |-> v, type |-> "select-one", checked |-> FALSE] :
        v \in {"", "Other"}}
    \cup {[name |-> "city", value |-> "Pune", type |-> "text", checked |-> FALSE]}
    \cup {[name |-> "hobbies", value |-> h, type |-> "checkbox",
           checked |-> ~(\E i \in DOMAIN user.hobbies : user.hobbies[i] = h)] :
        h \in {"Music", "Art"}}
    \cup {[name |-> "newsletter", value |-> "on", type |-> "checkbox",
           checked |-> ~user.newsletter]}

\* An input's onChange
RegistrationChange(e) ==
    /\ route = "Registration"
    /\ user' = handleChange(user, e)
    /\ last' = [op |-> "Change", id |-> 0, arg |-> e, pre |-> << >>]
    /\ UNCHANGED <<route, now, cartS, cartR, itemsR, items, posts, itemsS,
                   notification, timers, history>>

\* The form's onSubmit
RegistrationSubmit ==
    /\ route = "Registration"
    /\ history.ops < MaxOps
    /\ showNotification(handleSubmit(user).message)
    /\ user' = handleSubmit(user).user
    /\ Record("Submit", 0, [fields |-> user, message |-> handleSubmit(user).message],
              << >>)
    /\ UNCHANGED <<route, now, cartS, cartR, itemsR, items, posts, itemsS>>

InitRegistration ==
    /\ route = "Registration"
    /\ now = Epoch
    /\ cartS = << >>
    /\ cartR = << >>
    /\ itemsR = << >>
    /\ items = << >>
    /\ posts = << firstPost >>
    /\ itemsS = << >>
    /\ notification = NoNotification
    /\ timers = {}
    /\ user = initialUser
    /\ last = [op |-> "Init", id |-> 0, arg |-> 0, pre |-> << >>]
    /\ history = [adds |-> 0, onlyAdds |-> TRUE, ops |-> 0]

NextRegistration ==
    \/ \E e \in ChangeEvents : RegistrationChange(e)
    \/ RegistrationSubmit
    \/ TimerAdvance

\* The registration form with the notification provider.
SpecRegistration == InitRegistration /\ [][NextRegistration]_vars

RequiredFields == {"name", "email", "phone"}

\* C37: when name, email or phone is empty after trimming, handleSubmit shows
\* the required-fields notification and leaves every form field unchanged;
\* otherwise it shows the success notification and resets every field to its
\* initial empty value (hobbies = [], newsletter = false).  Between submits, a
\* change event alters only the field it names.
C37_SubmitAndChange ==
    [][route = "Registration" =>
         /\ history'.ops # history.ops =>
               IF \E f \in RequiredFields : trim(user[f]) = << >>
               THEN /\ notification' = requiredMessage
                    /\ user' = user
               ELSE /\ notification' = registeredMessage(user.name)
                    /\ user' = initialUser
                    /\ user'.hobbies = << >>
                    /\ user'.newsletter = FALSE
         /\ history'.ops = history.ops =>
               \A f \in DOMAIN user :
                  user'[f] # user[f] => (last'.op = "Change" /\ last'.arg.name = f)]_vars

\* A form with the required fields, a hobby and the newsletter box filled in
\* was submitted: the success message is shown and the form is empty again.
C37_Witness ==
    /\ route = "Registration"
    /\ last.op = "Submit"
    /\ last.arg.fields.hobbies # << >>
    /\ last.arg.fields.newsletter
    /\ last.arg.message = registeredMessage(last.arg.fields.name)
    /\ notification = last.arg.message
    /\ user = initialUser

====
